---- MODULE Spec2Model ----
(***************************************************************************)
(* Model of record_and_transcribe.py: module initialisation (load the     *)
(* whisper model, create the output directory) followed by the endless    *)
(* loop  record_chunk() ; transcribe_to_file("temp.wav") ; time.sleep(2). *)
(*                                                                         *)
(* Each blocking library call is one step of the single Python thread.    *)
(* The only activity outside that thread is the PortAudio input stream    *)
(* that sd.rec starts and sd.wait joins.  Everything the environment      *)
(* decides (the wall clock read by datetime.now(), the text the model     *)
(* returns, whether a library call raises, what the file system holds at  *)
(* startup) is a nondeterministic input.  An uncaught exception ends the  *)
(* process: pc = "crashed".                                                *)
(***************************************************************************)
EXTENDS Integers, Sequences, FiniteSets

\* ---------------------------------------------------------------- bounds
MaxIter == 3
\* wall-clock readings are 0..MaxNow, in ticks of 1/TicksPerSec second
MaxNow == 5
TicksPerSec == 2
\* numerators of the test durations handed to record_chunk
MaxNum == 3

\* ------------------------------------------------------ program constants
OUT_DIR == "./output-transcripts"
fs == 16000
DefaultFilename == "temp.wav"
DefaultDuration == <<60, 1>>
Channels == 1

\* ------------------------------------------------------------ value sets
\* a duration is the exact rational num/den seconds, den > 0
\* (whole seconds and thirds: the float product duration * fs is then exact
\* or has fraction 1/3 or 2/3, so int() of it is the truncation modelled here)
Dens == {1, 3}
Durations == ((0..MaxNum) \X Dens) \cup {DefaultDuration}
Filenames == {"temp.wav", "other.wav"}
Texts == {<< >>, <<"a">>, <<"b">>}
Nows == 0..MaxNow

NoAudio == [frames |-> 0, channels |-> 0, samplerate |-> 0,
            chunk |-> 0, complete |-> FALSE]
NoResult == [text |-> << >>, chunk |-> 0]
NoPath == <<"", "", -1, "">>
NoTs == -1

\* ------------------------------------------------------- pure functions
\* variant: int(duration) * fs, the truncation applied to the duration
Frames_m(d) == (d[1] \div d[2]) * fs

\* int(duration * fs): Python's int() truncates the non-negative product
Frames(d) == (d[1] * fs) \div d[2]

\* datetime.now().strftime("%Y-%m-%d_%H%M%S"): the reading cut to whole seconds
Strftime(now) == now \div TicksPerSec

\* variant: a file name without the timestamp
OutPath_m(ts) == <<OUT_DIR, "voice_", 0, ".txt">>

\* f"{OUT_DIR}/voice_{ts}.txt"
OutPath(ts) == <<OUT_DIR, "voice_", ts, ".txt">>

\* a file of the output directory that is not a transcript of this program
NotesPath == <<OUT_DIR, "notes", 0, ".txt">>

IsTranscript(p) == p[2] = "voice_"

\* the file system's map after path k has been given content v
Put(f, k, v) == [x \in (DOMAIN f) \cup {k} |-> IF x = k THEN v ELSE f[x]]

EmptyMap == [x \in {} |-> << >>]

VARIABLES
  pc,         \* position of the Python thread
  caller,     \* "main": the script; "harness": record_chunk called on its own
  MODEL,      \* "unloaded" or "base"
  outKind,    \* what OUT_DIR is on disk: "absent", "dir" or "file"
  outFiles,   \* path -> text, the files inside OUT_DIR
  files,      \* filename -> audio, the audio files of the working directory
  filename,   \* record_chunk's parameter
  duration,   \* record_chunk's parameter
  audio,      \* record_chunk's local buffer
  stream,     \* the input stream sd.rec starts: "idle" or "active"
  result,     \* transcribe_to_file's local
  out_path,   \* transcribe_to_file's local
  iter,       \* completed loop iterations
  hist,       \* per started transcription: what it returned and where it went
  failedAt,   \* the call that raised, "none" if none did
  out0,       \* OUT_DIR as found at startup
  created,    \* os.makedirs created OUT_DIR
  nRec,       \* buffers requested by the current record_chunk call
  nSfWrite    \* sf.write calls completed by the current record_chunk call

vars == <<pc, caller, MODEL, outKind, outFiles, files, filename, duration,
          audio, stream, result, out_path, iter, hist, failedAt, out0,
          created, nRec, nSfWrite>>

\* variables of transcribe_to_file and of the loop
loopVars == <<result, out_path, iter, hist>>
\* variables of record_chunk
recVars == <<filename, duration, audio, stream, nRec, nSfWrite>>
\* variables of module initialisation
initVars == <<caller, MODEL, outKind, out0, created>>

StaleAudio == [frames |-> Frames(DefaultDuration), channels |-> Channels,
               samplerate |-> fs, chunk |-> 0, complete |-> TRUE]

\* the working directory at startup: no temp.wav, or one left by an earlier run
InitFiles == {[x \in {} |-> NoAudio], [x \in {DefaultFilename} |-> StaleAudio]}

\* OUT_DIR at startup
InitOut ==
  {[kind |-> "absent", files |-> EmptyMap], [kind |-> "file", files |-> EmptyMap]}
  \cup {[kind |-> "dir", files |-> f] :
          f \in {EmptyMap,
                 [x \in {NotesPath} |-> <<"b">>],
                 [x \in {OutPath(0)} |-> <<"b">>]}}

Init ==
  /\ pc = "load_model"
  /\ caller = "main"
  /\ MODEL = "unloaded"
  /\ out0 \in InitOut
  /\ outKind = out0.kind
  /\ outFiles = out0.files
  /\ files \in InitFiles
  /\ filename = DefaultFilename
  /\ duration = DefaultDuration
  /\ audio = NoAudio
  /\ stream = "idle"
  /\ result = NoResult
  /\ out_path = NoPath
  /\ iter = 0
  /\ hist = << >>
  /\ failedAt = "none"
  /\ created = FALSE
  /\ nRec = 0
  /\ nSfWrite = 0

\* an uncaught exception raised by call c: the interpreter exits
Crash(c) ==
  /\ pc' = "crashed"
  /\ failedAt' = c

\* ------------------------------------------------ module initialisation
\* MODEL = whisper.load_model("base")
LoadModel ==
  /\ pc = "load_model"
  /\ MODEL' = "base"
  /\ pc' = "makedirs"
  /\ UNCHANGED <<caller, outKind, out0, created, outFiles, files, failedAt>>
  /\ UNCHANGED <<recVars, loopVars>>

LoadModelFail ==
  /\ pc = "load_model"
  /\ Crash("load_model")
  /\ UNCHANGED <<initVars, outFiles, files, recVars, loopVars>>

\* variant: os.makedirs(OUT_DIR) without exist_ok, raising on any existing path
Makedirs_m ==
  /\ pc = "makedirs"
  /\ CASE outKind = "absent" ->
            /\ outKind' = "dir"
            /\ created' = TRUE
            /\ pc' = "loop"
            /\ UNCHANGED failedAt
       [] OTHER ->
            /\ Crash("makedirs")
            /\ UNCHANGED <<outKind, created>>
  /\ UNCHANGED <<caller, MODEL, out0, outFiles, files, recVars, loopVars>>

\* os.makedirs(OUT_DIR, exist_ok=True): creates a missing directory, accepts
\* an existing one, raises FileExistsError when the path is a regular file
Makedirs ==
  /\ pc = "makedirs"
  /\ CASE outKind = "absent" ->
            /\ outKind' = "dir"
            /\ created' = TRUE
            /\ pc' = "loop"
            /\ UNCHANGED failedAt
       [] outKind = "dir" ->
            /\ pc' = "loop"
            /\ UNCHANGED <<outKind, created, failedAt>>
       [] outKind = "file" ->
            /\ Crash("makedirs")
            /\ UNCHANGED <<outKind, created>>
  /\ UNCHANGED <<caller, MODEL, out0, outFiles, files, recVars, loopVars>>

\* os.makedirs cannot create the missing directory (PermissionError, ...)
MakedirsFail ==
  /\ pc = "makedirs"
  /\ outKind = "absent"
  /\ Crash("makedirs")
  /\ UNCHANGED <<initVars, outFiles, files, recVars, loopVars>>

\* ------------------------------------------------------------- the loop
\* while True: record_chunk()    -- the call binds the default parameters
Loop ==
  /\ pc = "loop"
  /\ iter < MaxIter
  /\ filename' = DefaultFilename
  /\ duration' = DefaultDuration
  /\ audio' = NoAudio
  /\ nRec' = 0
  /\ nSfWrite' = 0
  /\ pc' = "sd_rec"
  /\ UNCHANGED <<initVars, outFiles, files, stream, loopVars, failedAt>>

\* --------------------------------------------------------- record_chunk
\* print(...); fs = 16000; audio = sd.rec(int(duration * fs), samplerate=fs,
\* channels=1): allocates the buffer and starts the input stream
SdRec ==
  /\ pc = "sd_rec"
  /\ audio' = [frames |-> Frames(duration), channels |-> Channels,
               samplerate |-> fs, chunk |-> iter + 1, complete |-> FALSE]
  /\ stream' = "active"
  /\ nRec' = nRec + 1
  /\ pc' = "sd_wait"
  /\ UNCHANGED <<initVars, outFiles, files, filename, duration, nSfWrite,
                 loopVars, failedAt>>

\* sd.rec raises (no input device, ...)
SdRecFail ==
  /\ pc = "sd_rec"
  /\ Crash("sd_rec")
  /\ UNCHANGED <<initVars, outFiles, files, recVars, loopVars>>

\* the input stream has delivered the last requested frame
StreamFinish ==
  /\ stream = "active"
  /\ stream' = "idle"
  /\ audio' = [audio EXCEPT !.complete = TRUE]
  /\ UNCHANGED <<pc, initVars, outFiles, files, filename, duration, nRec,
                 nSfWrite, loopVars, failedAt>>

\* variant: the thread goes on without waiting for the stream
SdWait_m ==
  /\ pc = "sd_wait"
  /\ pc' = "sf_write"
  /\ UNCHANGED <<initVars, outFiles, files, recVars, loopVars, failedAt>>

\* sd.wait(): returns once the stream has finished
SdWait ==
  /\ pc = "sd_wait"
  /\ stream = "idle"
  /\ pc' = "sf_write"
  /\ UNCHANGED <<initVars, outFiles, files, recVars, loopVars, failedAt>>

\* variant: the audio goes to another file than the one the loop transcribes
SfWrite_m ==
  /\ pc = "sf_write"
  /\ files' = Put(files, "other.wav", audio)
  /\ nSfWrite' = nSfWrite + 1
  /\ pc' = IF caller = "main" THEN "transcribe" ELSE "returned"
  /\ UNCHANGED <<initVars, outFiles, filename, duration, audio, stream, nRec,
                 loopVars, failedAt>>

\* sf.write(filename, audio, fs): creates or replaces the file, then returns
SfWrite ==
  /\ pc = "sf_write"
  /\ files' = Put(files, filename, audio)
  /\ nSfWrite' = nSfWrite + 1
  /\ pc' = IF caller = "main" THEN "transcribe" ELSE "returned"
  /\ UNCHANGED <<initVars, outFiles, filename, duration, audio, stream, nRec,
                 loopVars, failedAt>>

\* sf.write raises: before touching the file, or after truncating it
SfWriteFail ==
  /\ pc = "sf_write"
  /\ \/ UNCHANGED files
     \/ files' = Put(files, filename,
                     [audio EXCEPT !.frames = 0, !.complete = FALSE])
  /\ Crash("sf_write")
  /\ UNCHANGED <<initVars, outFiles, recVars, loopVars>>

\* --------------------------------------------------- transcribe_to_file
\* result = MODEL.transcribe(wav_path), wav_path = "temp.wav": reads the file
\* and returns some text
Transcribe ==
  /\ pc = "transcribe"
  /\ MODEL = "base"
  /\ DefaultFilename \in DOMAIN files
  /\ \E t \in Texts :
       /\ result' = [text |-> t, chunk |-> files[DefaultFilename].chunk]
       /\ hist' = Append(hist, [text |-> t,
                                chunk |-> files[DefaultFilename].chunk,
                                complete |-> files[DefaultFilename].complete,
                                ts |-> NoTs, written |-> FALSE])
  /\ pc' = "strftime"
  /\ UNCHANGED <<initVars, outFiles, files, recVars, out_path, iter, failedAt>>

\* variant: the exception is caught and the loop goes on
TranscribeFail_m ==
  /\ pc = "transcribe"
  /\ failedAt' = "transcribe"
  /\ pc' = "sleep"
  /\ UNCHANGED <<initVars, outFiles, files, recVars, loopVars>>

\* MODEL.transcribe raises (unreadable audio, model failure)
TranscribeFail ==
  /\ pc = "transcribe"
  /\ Crash("transcribe")
  /\ UNCHANGED <<initVars, outFiles, files, recVars, loopVars>>

\* variant: an empty text is skipped, no file is written for it
StrftimeStep_m ==
  /\ pc = "strftime"
  /\ IF result.text = << >>
       THEN /\ pc' = "sleep"
            /\ UNCHANGED <<out_path, hist>>
       ELSE /\ \E now \in Nows :
                 /\ out_path' = OutPath(Strftime(now))
                 /\ hist' = [hist EXCEPT ![Len(hist)].ts = Strftime(now)]
            /\ pc' = "open"
  /\ UNCHANGED <<initVars, outFiles, files, recVars, result, iter, failedAt>>

\* ts = datetime.now().strftime(...); out_path = f"{OUT_DIR}/voice_{ts}.txt"
StrftimeStep ==
  /\ pc = "strftime"
  /\ \E now \in Nows :
       /\ out_path' = OutPath(Strftime(now))
       /\ hist' = [hist EXCEPT ![Len(hist)].ts = Strftime(now)]
  /\ pc' = "open"
  /\ UNCHANGED <<initVars, outFiles, files, recVars, result, iter, failedAt>>

\* variant: open(out_path, "a"), an existing file keeps its content
Open_m ==
  /\ pc = "open"
  /\ outKind = "dir"
  /\ outFiles' = IF out_path \in DOMAIN outFiles
                   THEN outFiles ELSE Put(outFiles, out_path, << >>)
  /\ pc' = "f_write"
  /\ UNCHANGED <<initVars, files, recVars, loopVars, failedAt>>

\* open(out_path, "w"): creates the file, or truncates the one that is there
Open ==
  /\ pc = "open"
  /\ outKind = "dir"
  /\ outFiles' = Put(outFiles, out_path, << >>)
  /\ pc' = "f_write"
  /\ UNCHANGED <<initVars, files, recVars, loopVars, failedAt>>

\* open raises (unwritable disk)
OpenFail ==
  /\ pc = "open"
  /\ Crash("open")
  /\ UNCHANGED <<initVars, outFiles, files, recVars, loopVars>>

\* f.write(result['text']) at the handle's position, the close of the with
\* block, print(...), return
FWrite ==
  /\ pc = "f_write"
  /\ outFiles' = Put(outFiles, out_path, outFiles[out_path] \o result.text)
  /\ hist' = [hist EXCEPT ![Len(hist)].written = TRUE]
  /\ pc' = "sleep"
  /\ UNCHANGED <<initVars, files, recVars, result, out_path, iter, failedAt>>

\* f.write or the flush at close raises (disk full): the file stays truncated
FWriteFail ==
  /\ pc = "f_write"
  /\ Crash("f_write")
  /\ UNCHANGED <<initVars, outFiles, files, recVars, loopVars>>

\* variant: the script ends after one pass instead of looping
Sleep_m ==
  /\ pc = "sleep"
  /\ iter' = iter + 1
  /\ pc' = "returned"
  /\ UNCHANGED <<initVars, outFiles, files, recVars, result, out_path, hist,
                 failedAt>>

\* time.sleep(2), then back to while True
Sleep ==
  /\ pc = "sleep"
  /\ iter' = iter + 1
  /\ pc' = "loop"
  /\ UNCHANGED <<initVars, outFiles, files, recVars, result, out_path, hist,
                 failedAt>>

Next ==
  \/ LoadModel \/ LoadModelFail \/ Makedirs \/ MakedirsFail
  \/ Loop
  \/ SdRec \/ SdRecFail \/ StreamFinish \/ SdWait \/ SfWrite \/ SfWriteFail
  \/ Transcribe \/ TranscribeFail \/ StrftimeStep \/ Open \/ OpenFail
  \/ FWrite \/ FWriteFail
  \/ Sleep

Spec == Init /\ [][Next]_vars

\* the thread never stops by itself: WF of the one thread's next step
LiveSpec == Spec /\ WF_vars(Next)

\* ----------------------------------------- record_chunk called on its own
InitRecord ==
  /\ pc = "sd_rec"
  /\ caller = "harness"
  /\ MODEL = "base"
  /\ out0 = [kind |-> "dir", files |-> EmptyMap]
  /\ outKind = "dir"
  /\ outFiles = EmptyMap
  /\ files \in InitFiles
  /\ filename \in Filenames
  /\ duration \in Durations
  /\ audio = NoAudio
  /\ stream = "idle"
  /\ result = NoResult
  /\ out_path = NoPath
  /\ iter = 0
  /\ hist = << >>
  /\ failedAt = "none"
  /\ created = FALSE
  /\ nRec = 0
  /\ nSfWrite = 0

NextRecord ==
  SdRec \/ SdRecFail \/ StreamFinish \/ SdWait \/ SfWrite \/ SfWriteFail

SpecRecord == InitRecord /\ [][NextRecord]_vars

TypeOK ==
  /\ pc \in {"load_model", "makedirs", "loop", "sd_rec", "sd_wait", "sf_write",
             "transcribe", "strftime", "open", "f_write", "sleep", "returned",
             "crashed"}
  /\ iter \in 0..MaxIter
  /\ Len(hist) <= MaxIter
  /\ stream \in {"idle", "active"}
  /\ outKind \in {"absent", "dir", "file"}
  /\ \A p \in DOMAIN outFiles : outFiles[p] \in Seq({"a", "b"})

\* ------------------------------------------------------------ vocabulary
Written == {k \in 1..Len(hist) : hist[k].written}
Transcripts == {p \in DOMAIN outFiles : IsTranscript(p)}
DistinctTs == \A i, j \in Written : i # j => hist[i].ts # hist[j].ts
NoTranscriptsAtStart == \A p \in DOMAIN out0.files : ~IsTranscript(p)
\* a later write went to the name an earlier completed write of this run used
Collides(i, j) == i < j /\ i \in Written /\ hist[j].ts = hist[i].ts
\* k is the last completed write to its name
LastAtName(k) == \A j \in Written : hist[j].ts = hist[k].ts => j <= k
Phase(p) ==
  CASE p \in {"load_model", "makedirs"} -> "init"
    [] p \in {"sd_rec", "sd_wait", "sf_write"} -> "record"
    [] p \in {"strftime", "open", "f_write"} -> "write"
    [] OTHER -> p
\* the successive phases of the script
PhaseOrder == {<<"init", "loop">>, <<"loop", "record">>,
               <<"record", "transcribe">>, <<"transcribe", "write">>,
               <<"write", "sleep">>, <<"sleep", "loop">>}

\* C1: after N completed iterations whose timestamps are pairwise distinct,
\* starting from an output directory without transcript files, the directory
\* holds exactly N transcript files, and the file of iteration k holds the
\* text the transcription of iteration k returned, for the chunk of iteration k.
C1_NFilesWithTheirTexts ==
  (pc = "loop" /\ DistinctTs /\ NoTranscriptsAtStart) =>
     /\ Len(hist) = iter
     /\ Written = 1..iter
     /\ Cardinality(Transcripts) = iter
     /\ \A k \in 1..iter :
          /\ <<OUT_DIR, "voice_", hist[k].ts, ".txt">> \in Transcripts
          /\ outFiles[<<OUT_DIR, "voice_", hist[k].ts, ".txt">>] = hist[k].text
          /\ hist[k].chunk = k

C1_Witness ==
  /\ pc = "loop" /\ iter = 3 /\ DistinctTs /\ NoTranscriptsAtStart
  /\ Cardinality(Transcripts) = 3
  /\ hist[1].text = <<"a">> /\ hist[2].text = <<"b">>

\* C2: the phases follow record -> transcribe -> write -> sleep -> (loop) ->
\* record, a phase is left only for its successor (or by a crash), the record
\* phase of iteration k+1 is entered only after the sleep of iteration k, and
\* the input stream (the only activity beside the thread) runs only while the
\* thread is blocked in sd.wait.
C2_StrictSequence ==
  /\ [](stream = "active" => pc = "sd_wait")
  /\ [](Phase(pc) \in {"loop", "record", "transcribe"} => Len(hist) = iter)
  /\ [](Phase(pc) \in {"write", "sleep"} => Len(hist) = iter + 1)
  /\ [][ /\ \/ Phase(pc') = Phase(pc)
            \/ <<Phase(pc), Phase(pc')>> \in PhaseOrder
            \/ pc' = "crashed"
         /\ (Phase(pc) = "sleep" /\ pc' # pc) => iter' = iter + 1
         /\ Phase(pc) # "sleep" => iter' = iter
         /\ (pc = "sd_rec" /\ pc' = "sd_wait") => stream' = "active"
         /\ (pc = "sd_wait" /\ pc' = "sf_write") => audio.complete ]_vars

C2_Witness == pc = "sd_wait" /\ stream = "active" /\ iter = 1 /\ Len(hist) = 1

\* C3: a failing call is not caught: the process ends in that iteration (no
\* step follows, the iteration count and the transcripts stay as they are),
\* and nothing on disk is removed: the transcript files are untouched by the
\* failing call and the temporary audio file is still there (unchanged unless
\* the failing call is the sf.write that was replacing it).
C3_FailureTerminates ==
  /\ [](failedAt # "none" <=> pc = "crashed")
  /\ [][ /\ pc # "crashed"
         /\ pc' = "crashed" =>
              /\ iter' = iter
              /\ hist' = hist
              /\ outFiles' = outFiles
              /\ outKind' = outKind
              /\ DOMAIN files \subseteq DOMAIN files'
              /\ failedAt' # "sf_write" => files' = files ]_vars

C3_Witness ==
  /\ pc = "crashed" /\ failedAt = "transcribe" /\ iter = 1
  /\ Written = {1} /\ OutPath(hist[1].ts) \in DOMAIN outFiles
  /\ DefaultFilename \in DOMAIN files /\ files[DefaultFilename].chunk = 2

\* the steps that are not failures
Progress ==
  \/ LoadModel \/ Makedirs \/ Loop \/ SdRec \/ StreamFinish \/ SdWait
  \/ SfWrite \/ Transcribe \/ StrftimeStep \/ Open \/ FWrite \/ Sleep

\* C4: the loop never ends by itself: every sleep is followed by the next
\* pass through while True, which starts another recording; unless a call
\* fails, the completed iterations reach MaxIter (>= 2), and every state of
\* the loop below that cap has a next step.
C4_LoopsForever ==
  /\ [](pc = "sleep" => <>(pc = "loop"))
  /\ \A k \in 0..(MaxIter - 1) :
       [](pc = "loop" /\ iter = k => <>(pc = "sd_rec" /\ iter = k))
  /\ <>(pc = "crashed" \/ (iter = MaxIter /\ iter >= 2))
  /\ []((pc \notin {"crashed", "load_model", "makedirs"}
          /\ ~(pc = "loop" /\ iter = MaxIter)) => ENABLED Progress)

C4_Witness == pc = "sd_rec" /\ iter = 2 /\ Written = {1, 2}

\* C5 (as claimed): once an iteration has written its transcript file, no
\* later step changes the file's content or removes it.
C5_ImmutableAfterCreation ==
  [][\A k \in Written :
        /\ OutPath(hist[k].ts) \in DOMAIN outFiles'
        /\ outFiles'[OutPath(hist[k].ts)] = outFiles[OutPath(hist[k].ts)]]_vars

\* an open has truncated the file of timestamp t and its f.write is not done
WriteUnfinished(t) ==
  /\ pc = "f_write" \/ (pc = "crashed" /\ failedAt = "f_write")
  /\ hist[Len(hist)].ts = t

\* C6: when a write goes to the name an earlier write of this run used, open
\* does not fail because the file exists, and once the write is done the one
\* file under that name holds exactly the later text, nothing has failed, and
\* the loop goes on to its sleep.
C6_CollisionOverwrites ==
  \A i, j \in 1..Len(hist) : Collides(i, j) =>
     /\ (pc = "open" /\ j = Len(hist)) => ENABLED Open
     /\ (pc = "f_write" /\ j = Len(hist)) => ENABLED FWrite
     /\ (pc = "sleep" /\ j = Len(hist)) =>
           /\ j \in Written
           /\ failedAt = "none"
           /\ ENABLED Sleep
     /\ (j \in Written /\ LastAtName(j) /\ ~WriteUnfinished(hist[j].ts)) =>
           outFiles[<<OUT_DIR, "voice_", hist[j].ts, ".txt">>] = hist[j].text

C6_Witness ==
  /\ pc = "sleep" /\ Len(hist) = 2 /\ Collides(1, 2)
  /\ hist[1].text = <<"a">> /\ hist[2].text = <<"b">>
  /\ outFiles[OutPath(hist[2].ts)] = <<"b">>

\* C7: when the transcription returns the empty text, the iteration still
\* creates its transcript file, the file is empty, and the iteration goes on
\* to the sleep and the next pass of the loop.
C7_EmptyTextStillWritten ==
  (Len(hist) > 0 /\ hist[Len(hist)].text = << >>) =>
     /\ pc = "strftime" => ENABLED StrftimeStep
     /\ pc = "open" => ENABLED Open
     /\ pc = "f_write" =>
          /\ OutPath(hist[Len(hist)].ts) \in DOMAIN outFiles
          /\ ENABLED FWrite
     /\ pc = "sleep" =>
          /\ Len(hist) \in Written
          /\ <<OUT_DIR, "voice_", hist[Len(hist)].ts, ".txt">> \in DOMAIN outFiles
          /\ outFiles[<<OUT_DIR, "voice_", hist[Len(hist)].ts, ".txt">>] = << >>
          /\ ENABLED Sleep
     /\ (pc = "loop" /\ iter < MaxIter) => ENABLED Loop

C7_Witness ==
  /\ pc = "sd_rec" /\ iter = 1 /\ hist[1].text = << >>
  /\ outFiles[OutPath(hist[1].ts)] = << >>
  /\ out0.files = EmptyMap

\* C8: the directory is created exactly when it was absent at startup; a
\* directory that was there is accepted without error and keeps its content;
\* either way it exists before the first open of a transcript.
C8_DirCreatedIffAbsent ==
  /\ created <=> (out0.kind = "absent" /\ outKind = "dir")
  /\ out0.kind = "dir" => (outKind = "dir" /\ failedAt # "makedirs")
  /\ (out0.kind = "absent" /\ pc \notin {"load_model", "makedirs", "crashed"})
        => created
  /\ Len(hist) = 0 => outFiles = out0.files
  /\ \A p \in DOMAIN out0.files :
        /\ p \in DOMAIN outFiles
        /\ ~IsTranscript(p) => outFiles[p] = out0.files[p]
  /\ pc \in {"loop", "sd_rec", "sd_wait", "sf_write", "transcribe", "strftime",
             "open", "f_write", "sleep"} => outKind = "dir"

C8_WitnessCreated == pc = "open" /\ created /\ out0.kind = "absent"

\* C10: when the transcription of iteration k reads temp.wav the file holds
\* the complete chunk recorded in iteration k, written by that iteration's
\* single sf.write, and the file keeps that chunk until the iteration's
\* transcript is written: no recording runs meanwhile.
C10_TranscribesOwnChunk ==
  /\ \A k \in 1..Len(hist) : hist[k].chunk = k /\ hist[k].complete
  /\ pc \in {"transcribe", "strftime", "open", "f_write", "sleep"} =>
       /\ DefaultFilename \in DOMAIN files
       /\ files[DefaultFilename].chunk = iter + 1
       /\ files[DefaultFilename].complete
       /\ files[DefaultFilename].frames = 960000
       /\ nSfWrite = 1
       /\ stream = "idle"
  /\ pc \in {"strftime", "open", "f_write"} => result.chunk = iter + 1

C10_Witness ==
  /\ pc = "strftime" /\ iter = 1 /\ result.chunk = 2
  /\ files[DefaultFilename].chunk = 2 /\ hist[1].chunk = 1

\* C9: one call of record_chunk with duration D = num/den requests exactly one
\* single-channel 16 kHz buffer of int(D * 16000) frames (D * 16000 itself when
\* that is whole, 960000 for the default 60), waits until it is filled, and
\* writes that buffer to the file exactly once.
C9_OneBufferOfDTimesFs ==
  /\ pc \in {"sd_wait", "sf_write", "returned"} =>
       /\ nRec = 1
       /\ audio.channels = 1
       /\ audio.samplerate = 16000
       /\ audio.frames * duration[2] <= duration[1] * 16000
       /\ duration[1] * 16000 < (audio.frames + 1) * duration[2]
       /\ duration[2] = 1 => audio.frames = duration[1] * 16000
       /\ duration = <<60, 1>> => audio.frames = 960000
  /\ pc \in {"sd_rec", "sd_wait", "sf_write"} => nSfWrite = 0
  /\ pc = "sd_rec" => nRec = 0
  /\ pc = "returned" =>
       /\ nSfWrite = 1
       /\ filename \in DOMAIN files
       /\ files[filename] = audio
       /\ audio.complete

C9_Witness ==
  /\ pc = "returned" /\ duration = <<1, 3>> /\ filename = "other.wav"
  /\ files[filename].frames = 5333 /\ nSfWrite = 1
====
